---- MODULE Spec2Model ----
(***************************************************************************)
(* Template-mode timeline editing of pyJianYingDraft:                      *)
(* Imported_track.process_timerange (template_mode.py) recomputes the      *)
(* target timerange of one segment of a track, and of its followers, when  *)
(* the material of the segment is replaced by one of another duration.     *)
(*                                                                         *)
(* A track is a sequence of segments; of a segment only the target         *)
(* timerange (start, duration) is read or written by process_timerange.    *)
(* Python indices are 0-based and may be negative; sequences here are      *)
(* 1-based, PyPos converts.                                                *)
(***************************************************************************)
EXTENDS Integers, Sequences, FiniteSets, TLC

\* ------------------------------------------------------------------ bounds

\* No track of the model has more segments than this.
MaxSegs == 3

\* Every start and duration of the model stays within -MaxTime..MaxTime, and a
\* track is loaded with all its segments ending by MaxTime.
MaxTime == 3

\* The segments of a track that is exported.
MaxExportSegs == 2

\* The add_keyframe calls on one segment.
MaxKeyframes == 2

\* The time offsets of keyframes are 0..MaxKeyTime, their values 1..MaxKeyValue.
MaxKeyTime == 1

MaxKeyValue == 2

\* ------------------------------------------------------ enums and constants

\* Shrink_mode: the four members of the enum.
Shrink_mode == {"cut_head", "cut_tail", "cut_tail_align", "shrink"}

\* Extend_mode: the three members of the enum.
Extend_mode == {"extend_head", "extend_tail", "push_tail"}

\* A value that is a member of neither enum (Python does not check the
\* annotations of process_timerange, so a caller can pass one).
NotAMode == "not_a_mode"

\* int(1e15), the next_seg_start of the last segment. TLC's integers are 32
\* bits wide; every time of the model is far below this value, as every time
\* of a real draft is far below 1e15 microseconds (31 years), so the
\* comparisons it takes part in come out the same.
NEXT_SENTINEL == 1000000000

\* ------------------------------------------------------------------- state

VARIABLES
    segments,   \* Imported_track.segments: sequence of [start, duration]
    pre,        \* segments as they were when the last call was made
    call,       \* the arguments of the last call
    outcome,    \* how the last call ended: "ok" or the exception raised
    tried       \* the extend modes the last call's loop evaluated, in order

\* The track as a whole, its descriptor and what was asked of it.
VARIABLES
    loaded,           \* the descriptor (json_data) the tracks were built from
    track_type,       \* Imported_track.track_type
    raw_data,         \* Imported_track.raw_data
    seg_attrs,        \* per Imported_segment: raw_data, material_id, source_timerange
    static_raw_data,  \* raw_data of the Static_track built from the same descriptor
    exported,         \* what the last export_json returned, and of which track
    checked           \* the last check_material_type call: material and result

\* A Video_segment and its keyframes (Jianying_json.py).
VARIABLES
    uniform_scale,    \* Video_segment.uniform_scale
    common_keyframes, \* Video_segment.common_keyframes: the Keyframe_lists
    accepted,         \* the properties of the add_keyframe calls that returned
    kf_outcome        \* how the last add_keyframe call ended

trackvars == <<loaded, track_type, raw_data, seg_attrs, static_raw_data>>

kfvars == <<uniform_scale, common_keyframes, accepted, kf_outcome>>

callvars == <<segments, pre, call, outcome, tried>>

vars == <<segments, pre, call, outcome, tried, loaded, track_type, raw_data,
          seg_attrs, static_raw_data, exported, checked, uniform_scale,
          common_keyframes, accepted, kf_outcome>>

\* ----------------------------------------------------------------- helpers

\* Timerange.end (time_util.Timerange): start + duration.
End(seg) == seg.start + seg.duration

\* abs()
Abs(x) == IF x < 0 THEN -x ELSE x

\* max(0, x)
Max0(x) == IF x > 0 THEN x ELSE 0

\* list[i] raises IndexError unless -len <= i < len.
PyIndexOk(i, n) == -n <= i /\ i < n

\* The 1-based position list[i] denotes, i a valid Python index.
PyPos(i, n) == IF i < 0 THEN i + n + 1 ELSE i + 1

\* The shift loop written as range(len(self.segments)): every segment moves.
ShiftRangeAll(segs, lo, amount) ==
    [p \in 1..Len(segs) |-> [segs[p] EXCEPT !.start = @ + amount]]

\* for i in range(lo, n): self.segments[i].start += amount
\* (a negative i denotes a position counted from the end, so a position is
\* shifted once for every i of the range that denotes it).
ShiftRange(segs, lo, amount) ==
    LET n == Len(segs)
        times(p) == Cardinality({i \in lo..(n - 1) : PyPos(i, n) = p})
    IN [p \in 1..n |-> [segs[p] EXCEPT !.start = @ + amount * times(p)]]

\* What a call yields: the segments it leaves, how it ended, the modes its
\* loop evaluated.
Result(segs, how, modes) == [segments |-> segs, outcome |-> how, tried |-> modes]

\* ------------------------------------------------------------ shrink regime

\* Shrink_mode.cut_head branch: seg.start += delta_duration
CutHead(segs, k, delta_duration) ==
    [segs EXCEPT ![k].start = @ + delta_duration]

\* Shrink_mode.cut_tail branch: seg.duration -= delta_duration
CutTail(segs, k, delta_duration) ==
    [segs EXCEPT ![k].duration = @ - delta_duration]

\* cut_tail_align moving the next segment only, not every follower.
CutTailAlignNextOnly(segs, seg_index, k, delta_duration) ==
    [p \in 1..Len(segs) |->
        IF p = k THEN [segs[p] EXCEPT !.duration = @ - delta_duration]
        ELSE IF p = k + 1 THEN [segs[p] EXCEPT !.start = @ - delta_duration]
        ELSE segs[p]]

\* Shrink_mode.cut_tail_align branch: the duration, then every follower's start
CutTailAlign(segs, seg_index, k, delta_duration) ==
    ShiftRange([segs EXCEPT ![k].duration = @ - delta_duration],
               seg_index + 1, -delta_duration)

\* shrink taking all of delta off the tail: the start stays.
ShrinkMidNoStart(segs, k, delta_duration) ==
    [segs EXCEPT ![k].duration = @ - delta_duration]

\* Shrink_mode.shrink branch: seg.duration -= delta; seg.start += delta // 2
ShrinkMid(segs, k, delta_duration) ==
    [segs EXCEPT ![k].duration = @ - delta_duration,
                 ![k].start = @ + (delta_duration \div 2)]

\* if new_duration < seg.duration: the if/elif chain over the shrink mode
ShrinkBranch(segs, seg_index, k, delta_duration, shrink) ==
    IF shrink = "cut_head" THEN
        Result(CutHead(segs, k, delta_duration), "ok", <<>>)
    ELSE IF shrink = "cut_tail" THEN
        Result(CutTail(segs, k, delta_duration), "ok", <<>>)
    ELSE IF shrink = "cut_tail_align" THEN
        Result(CutTailAlign(segs, seg_index, k, delta_duration), "ok", <<>>)
    ELSE IF shrink = "shrink" THEN
        Result(ShrinkMid(segs, k, delta_duration), "ok", <<>>)
    ELSE Result(segs, "ValueError", <<>>)

\* ------------------------------------------------------------ extend regime

\* extend_head's test with > for >=: abutting the previous segment refused.
ExtendHeadOkStrict(seg, delta_duration, prev_seg_end) ==
    seg.start - delta_duration > prev_seg_end

\* Extend_mode.extend_head: its test
ExtendHeadOk(seg, delta_duration, prev_seg_end) ==
    seg.start - delta_duration >= prev_seg_end

\* Extend_mode.extend_head: seg.start -= delta_duration
ExtendHead(segs, k, delta_duration) ==
    [segs EXCEPT ![k].start = @ - delta_duration]

\* Extend_mode.extend_tail: its test
ExtendTailOk(seg, delta_duration, next_seg_start) ==
    End(seg) + delta_duration <= next_seg_start

\* Extend_mode.extend_tail: seg.duration += delta_duration
ExtendTail(segs, k, delta_duration) ==
    [segs EXCEPT ![k].duration = @ + delta_duration]

\* push_tail computing shift_duration after the duration has grown.
PushTailLateShift(segs, seg_index, k, delta_duration, next_seg_start) ==
    LET grown == [segs EXCEPT ![k].duration = @ + delta_duration]
        shift_duration == Max0(End(grown[k]) + delta_duration - next_seg_start)
    IN IF shift_duration > 0
       THEN ShiftRange(grown, seg_index + 1, shift_duration)
       ELSE grown

\* Extend_mode.push_tail: shift_duration is computed before the duration grows
PushTail(segs, seg_index, k, delta_duration, next_seg_start) ==
    LET shift_duration == Max0(End(segs[k]) + delta_duration - next_seg_start)
        grown == [segs EXCEPT ![k].duration = @ + delta_duration]
    IN IF shift_duration > 0
       THEN ShiftRange(grown, seg_index + 1, shift_duration)
       ELSE grown

\* The loop body with extend_head moving the start before testing for room.
TryModeMoveFirst(segs, seg_index, k, delta_duration, prev_seg_end, next_seg_start, mode) ==
    IF mode = "extend_head" THEN
        [segments |-> ExtendHead(segs, k, delta_duration),
         flag |-> IF ExtendHeadOk(segs[k], delta_duration, prev_seg_end)
                  THEN "success" ELSE "no"]
    ELSE IF mode = "extend_tail" THEN
        IF ExtendTailOk(segs[k], delta_duration, next_seg_start)
        THEN [segments |-> ExtendTail(segs, k, delta_duration), flag |-> "success"]
        ELSE [segments |-> segs, flag |-> "no"]
    ELSE IF mode = "push_tail" THEN
        [segments |-> PushTail(segs, seg_index, k, delta_duration, next_seg_start),
         flag |-> "success"]
    ELSE [segments |-> segs, flag |-> "error"]

\* One pass of the loop body for `mode`: the segments it leaves and
\* success_flag; flag "error" stands for the raise of the else branch.
TryMode(segs, seg_index, k, delta_duration, prev_seg_end, next_seg_start, mode) ==
    IF mode = "extend_head" THEN
        IF ExtendHeadOk(segs[k], delta_duration, prev_seg_end)
        THEN [segments |-> ExtendHead(segs, k, delta_duration), flag |-> "success"]
        ELSE [segments |-> segs, flag |-> "no"]
    ELSE IF mode = "extend_tail" THEN
        IF ExtendTailOk(segs[k], delta_duration, next_seg_start)
        THEN [segments |-> ExtendTail(segs, k, delta_duration), flag |-> "success"]
        ELSE [segments |-> segs, flag |-> "no"]
    ELSE IF mode = "push_tail" THEN
        [segments |-> PushTail(segs, seg_index, k, delta_duration, next_seg_start),
         flag |-> "success"]
    ELSE [segments |-> segs, flag |-> "error"]

\* The loop with its break left out: every listed mode is evaluated, and
\* the call succeeds when any of them did.
RECURSIVE NoBreakFrom(_, _, _, _, _, _, _, _, _, _)
NoBreakFrom(segs, seg_index, k, delta_duration, prev_seg_end, next_seg_start, extend, j, modes, success_flag) ==
    IF j > Len(extend) THEN
        Result(segs, IF success_flag THEN "ok" ELSE "ExtensionFailed", modes)
    ELSE
        LET r == TryMode(segs, seg_index, k, delta_duration, prev_seg_end,
                         next_seg_start, extend[j])
        IN IF r.flag = "error"
           THEN Result(segs, "ValueError", Append(modes, extend[j]))
           ELSE NoBreakFrom(r.segments, seg_index, k, delta_duration,
                            prev_seg_end, next_seg_start, extend, j + 1,
                            Append(modes, extend[j]),
                            success_flag \/ r.flag = "success")

ExtendLoopNoBreak(segs, seg_index, k, delta_duration, prev_seg_end, next_seg_start, extend, j, modes) ==
    NoBreakFrom(segs, seg_index, k, delta_duration, prev_seg_end,
                next_seg_start, extend, j, modes, FALSE)

\* for mode in extend: ...; if success_flag: break
\* and, after the loop, if not success_flag: raise ExtensionFailed.
\* j is the position in extend of the mode to evaluate next.
RECURSIVE ExtendLoop(_, _, _, _, _, _, _, _, _)
ExtendLoop(segs, seg_index, k, delta_duration, prev_seg_end, next_seg_start, extend, j, modes) ==
    IF j > Len(extend) THEN Result(segs, "ExtensionFailed", modes)
    ELSE
        LET r == TryMode(segs, seg_index, k, delta_duration, prev_seg_end,
                         next_seg_start, extend[j])
        IN IF r.flag = "error"
           THEN Result(segs, "ValueError", Append(modes, extend[j]))
           ELSE IF r.flag = "success"
           THEN Result(r.segments, "ok", Append(modes, extend[j]))
           ELSE ExtendLoop(r.segments, seg_index, k, delta_duration,
                           prev_seg_end, next_seg_start, extend, j + 1,
                           Append(modes, extend[j]))

\* elif new_duration > seg.duration: the neighbours' bounds, then the loop.
\* self.segments[seg_index-1] raises IndexError for seg_index = -len.
ExtendBranch(segs, seg_index, k, delta_duration, extend) ==
    LET n == Len(segs)
    IN IF seg_index # 0 /\ ~PyIndexOk(seg_index - 1, n)
       THEN Result(segs, "IndexError", <<>>)
       ELSE
        LET prev_seg_end == IF seg_index = 0 THEN 0
                            ELSE End(segs[PyPos(seg_index - 1, n)])
            next_seg_start == IF seg_index = n - 1 THEN NEXT_SENTINEL
                              ELSE segs[PyPos(seg_index + 1, n)].start
        IN ExtendLoop(segs, seg_index, k, delta_duration, prev_seg_end,
                      next_seg_start, extend, 1, <<>>)

\* process_timerange with elif new_duration >= seg.duration: an unchanged
\* duration enters the extend regime.
process_timerange_ge(segs, seg_index, new_duration, shrink, extend) ==
    IF ~PyIndexOk(seg_index, Len(segs)) THEN Result(segs, "IndexError", <<>>)
    ELSE
        LET k == PyPos(seg_index, Len(segs))
            seg == segs[k]
            delta_duration == Abs(new_duration - seg.duration)
        IN IF new_duration < seg.duration
           THEN ShrinkBranch(segs, seg_index, k, delta_duration, shrink)
           ELSE ExtendBranch(segs, seg_index, k, delta_duration, extend)

\* ------------------------------------------------------- process_timerange

\* Imported_track.process_timerange(seg_index, new_duration, shrink, extend)
\* on a track whose segments are segs.
process_timerange(segs, seg_index, new_duration, shrink, extend) ==
    IF ~PyIndexOk(seg_index, Len(segs)) THEN Result(segs, "IndexError", <<>>)
    ELSE
        LET k == PyPos(seg_index, Len(segs))
            seg == segs[k]
            delta_duration == Abs(new_duration - seg.duration)
        IN IF new_duration < seg.duration
           THEN ShrinkBranch(segs, seg_index, k, delta_duration, shrink)
           ELSE IF new_duration > seg.duration
           THEN ExtendBranch(segs, seg_index, k, delta_duration, extend)
           ELSE Result(segs, "ok", <<>>)

\* ------------------------------------------------------------------ inputs

\* A timerange as the draft format has it: start and duration non-negative.
Timeranges == [start : 0..MaxTime, duration : 0..MaxTime]

\* The segments are in ascending order and do not overlap.
Ordered(segs) ==
    \A i \in 1..(Len(segs) - 1) : End(segs[i]) <= segs[i + 1].start

\* Every start and duration is non-negative.
NonNegative(segs) ==
    \A i \in 1..Len(segs) : segs[i].start >= 0 /\ segs[i].duration >= 0

\* The tracks a draft is loaded with: 1..MaxSegs segments (__init__ takes the
\* max of the segments' render_index, so there is at least one), in ascending
\* order, not overlapping, over by MaxTime.
LoadedTracksUpTo(max) ==
    UNION {{t \in [1..n -> Timeranges] : Ordered(t) /\ End(t[n]) <= MaxTime}
           : n \in 1..max}

LoadedTracks == LoadedTracksUpTo(MaxSegs)

\* The kinds of track a descriptor names in its "type" key.
TrackTypes == {"video", "audio", "text"}

\* What a caller hands to check_material_type: a Video_material, an
\* Audio_material, or an object that is neither.
Materials == {"Video_material", "Audio_material", "object"}

\* Values of the keys of a descriptor that the classes do not read.
Opaque == {"a", "b"}

\* Timerange.import_json: the Timerange of a {"start", "duration"} object.
TimerangeImport(json_obj) ==
    [start |-> json_obj.start, duration |-> json_obj.duration]

\* Timerange.export_json: the {"start", "duration"} object of a Timerange.
TimerangeExport(timerange) ==
    [start |-> timerange.start, duration |-> timerange.duration]

\* The descriptor of a segment on the track at position p: the three keys
\* Imported_segment reads, render_index, and a key it does not know.
SegmentDescriptor(p, target, seg_extra) ==
    [material_id |-> "m",
     source_timerange |-> [start |-> 0, duration |-> target.duration],
     target_timerange |-> [start |-> target.start, duration |-> target.duration],
     render_index |-> p,
     extra |-> seg_extra]

\* The descriptor of a track: type, name, id, segments, and a key the
\* classes do not know.
TrackDescriptor(type, extra, seg_extra, targets) ==
    [type |-> type, name |-> "track", id |-> "id", extra |-> extra,
     segments |-> [p \in 1..Len(targets) |->
                      SegmentDescriptor(p, targets[p], seg_extra)]]

\* Track_type.from_name: the track type of a name.
from_name(name) == name

\* util.assign_attr_with_json over __DATA_ATTRS, without target_timerange
\* (kept in segments): material_id and source_timerange of the descriptor.
assign_attr_with_json(json_data) ==
    [material_id |-> json_data.material_id,
     source_timerange |-> TimerangeImport(json_data.source_timerange)]

\* Imported_segment.__init__, without target_timerange: raw_data is a copy of
\* the descriptor, the data attributes are read from it.
Imported_segment(json_data) ==
    LET attrs == assign_attr_with_json(json_data)
    IN [raw_data |-> json_data,
        material_id |-> attrs.material_id,
        source_timerange |-> attrs.source_timerange]

\* util.export_attr_to_json over __DATA_ATTRS, laid over a descriptor.
export_attr_to_json(json_data, seg, target_timerange) ==
    [json_data EXCEPT
        !.material_id = seg.material_id,
        !.source_timerange = TimerangeExport(seg.source_timerange),
        !.target_timerange = TimerangeExport(target_timerange)]

\* A segment export that is built from the data attributes alone: the keys of
\* raw_data that are not data attributes come out blank.
segment_export_attrs_only(seg, target_timerange) ==
    export_attr_to_json([seg.raw_data EXCEPT !.render_index = 0, !.extra = ""],
                        seg, target_timerange)

\* Imported_segment.export_json: a copy of raw_data, updated with the data
\* attributes.
segment_export_json(seg, target_timerange) ==
    export_attr_to_json(seg.raw_data, seg, target_timerange)

\* Imported_track.export_json: raw_data with its "segments" replaced by the
\* segments' exports.
track_export_json(raw, segs, attrs) ==
    [raw EXCEPT !.segments =
        [p \in 1..Len(segs) |-> segment_export_json(attrs[p], segs[p])]]

\* A check that lets a video track take any material.
check_material_type_video_any(type, material) ==
    \/ type = "video"
    \/ type = "audio" /\ material = "Audio_material"

\* Imported_track.check_material_type
check_material_type(type, material) ==
    IF type = "video" /\ material = "Video_material" THEN TRUE
    ELSE IF type = "audio" /\ material = "Audio_material" THEN TRUE
    ELSE FALSE

\* Keyframe_property
Keyframe_property ==
    {"position_x", "position_y", "rotation", "scale_x", "scale_y",
     "uniform_scale", "alpha", "saturation", "contrast", "brightness"}

\* Keyframe.__init__ (the generated id is left out)
Keyframe(time_offset, value) == [time_offset |-> time_offset, values |-> <<value>>]

\* One step of a stable sort by time_offset: kf goes behind every keyframe of
\* the sorted list that is not later than it.
InsertByTimeOffset(sorted, kf) ==
    LET n == Cardinality({i \in 1..Len(sorted) :
                             sorted[i].time_offset <= kf.time_offset})
    IN SubSeq(sorted, 1, n) \o <<kf>> \o SubSeq(sorted, n + 1, Len(sorted))

\* keyframes.sort(key=lambda x: x.time_offset): a stable sort.
RECURSIVE SortByTimeOffset(_)
SortByTimeOffset(keyframes) ==
    IF keyframes = <<>> THEN <<>>
    ELSE InsertByTimeOffset(
             SortByTimeOffset(SubSeq(keyframes, 1, Len(keyframes) - 1)),
             keyframes[Len(keyframes)])

\* Keyframe_list.add_keyframe: append the keyframe, sort the list.
Keyframe_list_add_keyframe(kf_list, time_offset, value) ==
    [kf_list EXCEPT !.keyframes =
        SortByTimeOffset(Append(@, Keyframe(time_offset, value)))]

\* Keyframe_list.__init__ (the generated id is left out)
Keyframe_list(keyframe_property) ==
    [keyframe_property |-> keyframe_property, keyframes |-> <<>>]

\* The second half of Video_segment.add_keyframe: the keyframe goes to the
\* first list of its property, or to a new list at the end.
store_keyframe(lists, property, time_offset, value) ==
    LET found == {i \in 1..Len(lists) : lists[i].keyframe_property = property}
    IN IF found # {}
       THEN LET i == CHOOSE j \in found : \A k \in found : j <= k
            IN [lists EXCEPT ![i] = Keyframe_list_add_keyframe(@, time_offset, value)]
       ELSE Append(lists, Keyframe_list_add_keyframe(Keyframe_list(property),
                                                     time_offset, value))

\* The outcome of an add_keyframe call.
KeyframeResult(flag, lists, how) ==
    [uniform_scale |-> flag, common_keyframes |-> lists, outcome |-> how]

\* Video_segment.add_keyframe
add_keyframe(flag, lists, property, time_offset, value) ==
    IF property \in {"scale_x", "scale_y"} /\ flag
    THEN KeyframeResult(FALSE, store_keyframe(lists, property, time_offset, value), "ok")
    ELSE IF property = "uniform_scale"
    THEN IF ~flag
         THEN KeyframeResult(flag, lists, "ValueError")
         ELSE KeyframeResult(flag, store_keyframe(lists, "scale_x", time_offset, value), "ok")
    ELSE KeyframeResult(flag, store_keyframe(lists, property, time_offset, value), "ok")

\* The extend lists a caller passes: up to two entries.
ListsOver(S) == {<<>>} \cup {<<a>> : a \in S} \cup {<<a, b>> : a \in S, b \in S}

\* The state stays within the bounds of the model.
InBounds(segs) ==
    \A i \in 1..Len(segs) :
        /\ segs[i].start \in -MaxTime..MaxTime
        /\ segs[i].duration \in -MaxTime..MaxTime
        /\ End(segs[i]) <= MaxTime

\* The record of a track on which no call is pending.
NoCall == [seg_index |-> 0, new_duration |-> 0, shrink |-> "none", extend |-> <<>>]

\* ----------------------------------------------------------------- actions

\* No export_json call and no check_material_type call is on record.
NotExported == [of |-> "none"]

NotChecked == [material |-> "none", result |-> FALSE]

\* Video_segment.__init__: no keyframes, uniform_scale set.
InitSegment ==
    /\ uniform_scale = TRUE
    /\ common_keyframes = <<>>
    /\ accepted = {}
    /\ kf_outcome = "none"

\* No method of the track has been called.
NothingCalled ==
    /\ pre = segments
    /\ call = NoCall
    /\ outcome = "none"
    /\ tried = <<>>
    /\ exported = NotExported
    /\ checked = NotChecked

\* Imported_track.__init__ and Static_track.__init__ on one descriptor, of
\* one of the given types and with the given values of the unknown keys.
InitWith(types, extras, seg_extras, tracks) ==
    /\ loaded \in {TrackDescriptor(type, extra, seg_extra, targets) :
                      type \in types, extra \in extras,
                      seg_extra \in seg_extras, targets \in tracks}
    /\ track_type = from_name(loaded.type)
    /\ raw_data = loaded
    /\ static_raw_data = loaded
    /\ seg_attrs = [p \in 1..Len(loaded.segments) |->
                        Imported_segment(loaded.segments[p])]
    /\ segments = [p \in 1..Len(loaded.segments) |->
                       TimerangeImport(loaded.segments[p].target_timerange)]
    /\ NothingCalled
    /\ InitSegment

\* The descriptor is not followed.
NoDescriptor == [type |-> "video"]

\* Imported_track.__init__ of a video track: the segments of the descriptor.
\* process_timerange reads and writes nothing of a track but the target
\* timeranges of its segments, so the descriptor and the copies of it are
\* not followed where there are only calls of process_timerange.
Init ==
    /\ segments \in LoadedTracks
    /\ loaded = NoDescriptor
    /\ track_type = from_name(loaded.type)
    /\ raw_data = NoDescriptor
    /\ static_raw_data = NoDescriptor
    /\ seg_attrs = <<>>
    /\ NothingCalled
    /\ InitSegment

\* A track of any type, loaded.
InitCheck == InitWith(TrackTypes, {"a"}, {"a"}, LoadedTracks)

\* One track, and a Video_segment as constructed.
InitKeyframe ==
    InitWith({"video"}, {"a"}, {"a"}, {<<[start |-> 0, duration |-> MaxTime]>>})

\* A track of up to MaxExportSegs segments, loaded from a descriptor with
\* either value in the unknown key of the track and "b" in the segments'.
InitExport == InitWith({"video"}, Opaque, {"b"}, LoadedTracksUpTo(MaxExportSegs))

\* No call is on record: the track is loaded, or the caller has taken the
\* result of its last call.
Idle == outcome = "none"

\* One call of process_timerange with its arguments: the track is left as the
\* call leaves it, and the call is recorded.
Call(seg_index, new_duration, shrink, extend) ==
    LET r == process_timerange(segments, seg_index, new_duration, shrink, extend)
    IN /\ InBounds(r.segments)
       /\ segments' = r.segments
       /\ pre' = segments
       /\ call' = [seg_index |-> seg_index, new_duration |-> new_duration,
                   shrink |-> shrink, extend |-> extend]
       /\ outcome' = r.outcome
       /\ tried' = r.tried
       /\ UNCHANGED <<trackvars, exported, checked, kfvars>>

\* A call that meets the documented preconditions: an index of the track, a
\* non-negative duration, members of the enums.
ProcessTimerange ==
    /\ Idle
    /\ \E seg_index \in 0..(Len(segments) - 1), new_duration \in 0..MaxTime,
          shrink \in Shrink_mode, extend \in ListsOver(Extend_mode) :
        Call(seg_index, new_duration, shrink, extend)

\* A call with any arguments: indices on both sides of the valid ones, a
\* negative duration, values outside the enums.
ProcessTimerangeAnyArgs ==
    /\ Idle
    /\ \E seg_index \in (-(Len(segments) + 1))..Len(segments),
          new_duration \in -1..MaxTime,
          shrink \in Shrink_mode \cup {NotAMode},
          extend \in ListsOver(Extend_mode \cup {NotAMode}) :
        Call(seg_index, new_duration, shrink, extend)

\* The caller has the result of its call (or has caught its exception) and
\* goes on: the record of the call is dropped, the track stays as it is.
Return ==
    /\ ~Idle
    /\ pre' = segments
    /\ call' = NoCall
    /\ outcome' = "none"
    /\ tried' = <<>>
    /\ UNCHANGED <<segments, trackvars, exported, checked, kfvars>>

\* Imported_track.check_material_type(material): the result is recorded.
CheckMaterialType ==
    \E material \in Materials :
        /\ checked' = [material |-> material,
                       result |-> check_material_type(track_type, material)]
        /\ UNCHANGED <<callvars, trackvars, exported, kfvars>>

\* Imported_track.export_json: raw_data takes the segments' exports and is
\* returned.
ExportJson ==
    /\ raw_data' = track_export_json(raw_data, segments, seg_attrs)
    /\ exported' = [of |-> "Imported_track", json |-> raw_data']
    /\ UNCHANGED <<callvars, loaded, track_type, seg_attrs, static_raw_data,
                   checked, kfvars>>

\* Static_track.export_json: raw_data is returned.
StaticExportJson ==
    /\ exported' = [of |-> "Static_track", json |-> static_raw_data]
    /\ UNCHANGED <<callvars, trackvars, checked, kfvars>>

\* The keyframes of the segment, over all its lists.
KeyframeCount(lists) ==
    Cardinality(UNION {{<<i, j>> : j \in 1..Len(lists[i].keyframes)}
                       : i \in 1..Len(lists)})

\* Video_segment.add_keyframe(_property, time_offset, value): the segment is
\* left as the call leaves it, the property of a call that returns is kept.
AddKeyframe ==
    /\ KeyframeCount(common_keyframes) < MaxKeyframes
    /\ \E property \in Keyframe_property, time_offset \in 0..MaxKeyTime,
          value \in 1..MaxKeyValue :
        LET r == add_keyframe(uniform_scale, common_keyframes, property,
                              time_offset, value)
        IN /\ uniform_scale' = r.uniform_scale
           /\ common_keyframes' = r.common_keyframes
           /\ kf_outcome' = r.outcome
           /\ accepted' = IF r.outcome = "ok" THEN accepted \cup {property}
                          ELSE accepted
           /\ UNCHANGED <<callvars, trackvars, exported, checked>>

\* One call, meeting the preconditions, on a loaded track.
Next == ProcessTimerange

Spec == Init /\ [][Next]_vars

\* Any finite sequence of calls meeting the preconditions.
NextSeq == ProcessTimerange \/ Return

SpecSeq == Init /\ [][NextSeq]_vars

\* One call, with any arguments, on a loaded track.
NextAnyArgs == ProcessTimerangeAnyArgs

SpecAnyArgs == Init /\ [][NextAnyArgs]_vars

\* Checks of materials against a loaded track of any type.
NextCheck == CheckMaterialType

SpecCheck == InitCheck /\ [][NextCheck]_vars

\* A loaded track, at most one call of process_timerange on it, and exports
\* of it and of the static track of the same descriptor at any time.
NextExport == ProcessTimerange \/ ExportJson \/ StaticExportJson

SpecExport == InitExport /\ [][NextExport]_vars

\* Any sequence of add_keyframe calls on one segment.
NextKeyframe == AddKeyframe

SpecKeyframe == InitKeyframe /\ [][NextKeyframe]_vars

\* ------------------------------------------------ the last call, for the claims
\* (what the specification says of a call, in terms of the track before it,
\* pre, its arguments, call, and the track after it, segments; the index of a
\* call of ProcessTimerange is an index of the track)

Called == ~Idle

\* The position of the addressed segment.
Addressed == call.seg_index + 1

\* delta = |new_duration - current duration|
Delta ==
    IF call.new_duration >= pre[Addressed].duration
    THEN call.new_duration - pre[Addressed].duration
    ELSE pre[Addressed].duration - call.new_duration

ShrinkRegime == Called /\ call.new_duration < pre[Addressed].duration

ExtendRegime == Called /\ call.new_duration > pre[Addressed].duration

HasNext == Addressed < Len(pre)

\* prev_end: the end of the segment before, 0 for the first segment.
PrevEnd ==
    IF Addressed = 1 THEN 0
    ELSE pre[Addressed - 1].start + pre[Addressed - 1].duration

\* start - delta >= prev_end
HeadRoom == pre[Addressed].start - Delta >= PrevEnd

\* end + delta <= next_start, which nothing bounds for the last segment.
TailRoom ==
    \/ ~HasNext
    \/ pre[Addressed].start + pre[Addressed].duration + Delta
           <= pre[Addressed + 1].start

\* The success condition of an extend policy on the track before the call.
Succeeds(mode) ==
    CASE mode = "extend_head" -> HeadRoom
      [] mode = "extend_tail" -> TailRoom
      [] mode = "push_tail" -> TRUE
      [] OTHER -> FALSE

NoneSucceeds == \A j \in 1..Len(call.extend) : ~Succeeds(call.extend[j])

\* The position in the list of the first policy whose condition holds.
FirstSuccess ==
    CHOOSE j \in 1..Len(call.extend) :
        /\ Succeeds(call.extend[j])
        /\ \A i \in 1..(j - 1) : ~Succeeds(call.extend[i])

\* shift = end + delta - next_start when that is positive, else nothing moves.
PushShift ==
    IF HasNext /\ pre[Addressed].start + pre[Addressed].duration + Delta
                     > pre[Addressed + 1].start
    THEN pre[Addressed].start + pre[Addressed].duration + Delta
             - pre[Addressed + 1].start
    ELSE 0

AfterExtendHead == [pre EXCEPT ![Addressed].start = @ - Delta]

AfterExtendTail == [pre EXCEPT ![Addressed].duration = @ + Delta]

AfterPushTail ==
    [p \in 1..Len(pre) |->
        IF p = Addressed THEN [pre[p] EXCEPT !.duration = @ + Delta]
        ELSE IF p > Addressed THEN [pre[p] EXCEPT !.start = @ + PushShift]
        ELSE pre[p]]

\* The track an extend policy leaves when it is the one committed.
EffectOf(mode) ==
    CASE mode = "extend_head" -> AfterExtendHead
      [] mode = "extend_tail" -> AfterExtendTail
      [] OTHER -> AfterPushTail

\* The segments abut: each ends where the next starts.
Abutting(segs) ==
    \A i \in 1..(Len(segs) - 1) :
        segs[i].start + segs[i].duration = segs[i + 1].start

\* ------------------------------------------------------------------ claims

\* C1. Failure atomicity: a call in the extend regime none of whose listed
\* extend policies succeeds fails with ExtensionFailed, and the start and
\* duration of every segment of the track are what they were before the call.
C1_FailureAtomicity ==
    (ExtendRegime /\ NoneSucceeds) =>
        (outcome = "ExtensionFailed" /\ segments = pre)

\* C1, its case: three abutting segments, the middle one asked to grow with
\* [extend_head, extend_tail], and the call has failed.
C1_Witness ==
    /\ ExtendRegime
    /\ Len(pre) = 3 /\ Abutting(pre)
    /\ \A i \in 1..3 : pre[i].duration > 0
    /\ call.seg_index = 1
    /\ call.extend = <<"extend_head", "extend_tail">>
    /\ tried = call.extend
    /\ outcome = "ExtensionFailed"

\* C2. Shrink is total: a call with new_duration below the current duration
\* returns without error under each of the four shrink policies, and the
\* addressed segment's duration is new_duration afterwards.
C2_ShrinkTotal ==
    ShrinkRegime =>
        (outcome = "ok" /\ segments[Addressed].duration = call.new_duration)

\* C3. Ordering and non-overlap are preserved: when every segment ended no
\* later than the next one started before a successful call, the same holds
\* after it.
C3_OrderPreserved ==
    (Called /\ outcome = "ok" /\ Ordered(pre)) => Ordered(segments)

\* C4. In the extend regime the policies are tried in list order and the first
\* whose success condition holds on the track before the call is committed:
\* the call succeeds, the track is that policy's effect alone on the track
\* before the call, and the policies evaluated are the list up to and
\* including it, so none after it is evaluated (push_tail listed first
\* pre-empts the others, its condition being TRUE).
C4_FirstSuccessCommits ==
    (ExtendRegime /\ ~NoneSucceeds) =>
        /\ outcome = "ok"
        /\ tried = SubSeq(call.extend, 1, FirstSuccess)
        /\ segments = EffectOf(call.extend[FirstSuccess])

\* C4, its case: push_tail listed before an extend_head that has room; the call
\* has committed push_tail and has not evaluated extend_head.
C4_Witness ==
    /\ ExtendRegime
    /\ call.extend = <<"push_tail", "extend_head">>
    /\ HeadRoom
    /\ outcome = "ok"
    /\ tried = <<"push_tail">>
    /\ segments = AfterPushTail
    /\ segments # AfterExtendHead

C6_PushTail ==
    ExtendRegime =>
        /\ (\E j \in 1..Len(call.extend) : call.extend[j] = "push_tail")
              => outcome = "ok"
        /\ (outcome = "ok" /\ tried[Len(tried)] = "push_tail") =>
            /\ segments[Addressed].start = pre[Addressed].start
            /\ segments[Addressed].duration = pre[Addressed].duration + Delta
            /\ \A p \in 1..(Addressed - 1) : segments[p] = pre[p]
            /\ \A p \in (Addressed + 1)..Len(pre) :
                  /\ segments[p].duration = pre[p].duration
                  /\ segments[p].start = pre[p].start + PushShift
            /\ \A p \in (Addressed + 1)..(Len(pre) - 1) :
                  segments[p + 1].start - End(segments[p])
                      = pre[p + 1].start - End(pre[p])
            /\ (HasNext /\ End(pre[Addressed]) = pre[Addressed + 1].start) =>
                  /\ segments[Addressed + 1].start = End(segments[Addressed])
                  /\ segments[Addressed + 1].start
                        = pre[Addressed].start + pre[Addressed].duration + Delta

\* C6, its case: A abuts B, B is followed by a third segment, and push_tail
\* has been committed on A and has pushed both.
C6_Witness ==
    /\ ExtendRegime
    /\ Len(pre) = 3 /\ call.seg_index = 0
    /\ pre[1].duration > 0 /\ pre[2].duration > 0
    /\ End(pre[1]) = pre[2].start
    /\ outcome = "ok" /\ tried[Len(tried)] = "push_tail"
    /\ segments[2].start = pre[2].start + Delta
    /\ segments[3].start = pre[3].start + Delta

\* C7. cut_tail_align leaves the start of the addressed segment unchanged,
\* reduces its duration by delta and moves the start of every following
\* segment by exactly -delta, their durations unchanged, so the gap between
\* the addressed segment's end and the next segment's start is what it was.
C7_CutTailAlign ==
    (ShrinkRegime /\ call.shrink = "cut_tail_align") =>
        /\ outcome = "ok"
        /\ segments[Addressed].start = pre[Addressed].start
        /\ segments[Addressed].duration = pre[Addressed].duration - Delta
        /\ \A p \in (Addressed + 1)..Len(pre) :
              /\ segments[p].start = pre[p].start - Delta
              /\ segments[p].duration = pre[p].duration
        /\ HasNext =>
              segments[Addressed + 1].start - End(segments[Addressed])
                  = pre[Addressed + 1].start - End(pre[Addressed])

\* C7, its case (the specification's example, in units that fit the bounds):
\* segment {start 1, duration 2}, next start 3, new_duration 1 has given
\* {1, 1} and next start 2.
C7_Witness ==
    /\ ShrinkRegime /\ call.shrink = "cut_tail_align"
    /\ call.seg_index = 0 /\ call.new_duration = 1
    /\ Len(pre) >= 2
    /\ pre[1] = [start |-> 1, duration |-> 2] /\ pre[2].start = 3
    /\ segments[1] = [start |-> 1, duration |-> 1] /\ segments[2].start = 2

\* C8. cut_head moves the addressed segment's start forward by delta and
\* keeps its end fixed: start = old start + delta, end = old end.
C8_CutHeadKeepsEnd ==
    (ShrinkRegime /\ call.shrink = "cut_head") =>
        /\ segments[Addressed].start = pre[Addressed].start + Delta
        /\ End(segments[Addressed]) = End(pre[Addressed])

\* The arguments of the last call break a documented precondition.
InvalidArgs ==
    \/ call.seg_index < 0 \/ call.seg_index >= Len(pre)
    \/ call.new_duration < 0
    \/ call.shrink \notin Shrink_mode
    \/ \E j \in 1..Len(call.extend) : call.extend[j] \notin Extend_mode

\* C9. Invalid arguments are rejected: a call with an index outside
\* 0 <= index < len(segments), a negative new_duration, or a shrink policy
\* or extend-list entry that is no known policy fails with an error, and the
\* track is left unchanged.
C9_InvalidArgsRejected ==
    (Called /\ InvalidArgs) => (outcome # "ok" /\ segments = pre)

\* C10. Timerange validity: from a loaded track (ascending, non-overlapping,
\* starts and durations non-negative), after any sequence of calls with a
\* valid index and new_duration >= 0, every segment has start >= 0 and
\* duration >= 0.
C10_TimerangeValid == NonNegative(segments)

\* C11. Segments at indices lower than the addressed one are never modified:
\* after a call with 0 <= index < len(segments), whether it succeeded or
\* failed and whatever its policies, the start and duration of every segment
\* before the addressed one are what they were.
C11_LowerUnchanged ==
    Called => \A p \in 1..(Addressed - 1) : segments[p] = pre[p]

\* C11, its case: the middle of three segments shrunk with cut_tail_align or
\* grown with push_tail; the follower has moved, the segment before has not.
C11_Witness ==
    /\ Called /\ outcome = "ok"
    /\ Len(pre) = 3 /\ call.seg_index = 1
    /\ \/ ShrinkRegime /\ call.shrink = "cut_tail_align"
       \/ ExtendRegime /\ tried = <<"push_tail">> /\ PushShift > 0
    /\ segments[3].start # pre[3].start
    /\ segments[1] = pre[1]

\* No-op regime: new_duration is the addressed segment's current duration.
NoOpRegime == Called /\ call.new_duration = pre[Addressed].duration

\* C12. No-op regime: a call whose new_duration equals the current duration
\* succeeds and mutates nothing, whatever the shrink policy and the extend
\* list, the empty list included.
C12_NoOp ==
    NoOpRegime => (outcome = "ok" /\ segments = pre /\ tried = <<>>)

\* C12, its case: a no-op call with the empty extend list on a segment that
\* has a neighbour on each side.
C12_Witness ==
    /\ NoOpRegime
    /\ Len(pre) = 3 /\ call.seg_index = 1
    /\ pre[2].duration > 0
    /\ call.extend = <<>>
    /\ outcome = "ok"

\* C13. The shrink policy reduces the duration by delta and advances the
\* start by floor(delta / 2), so twice the midpoint, 2 * start + duration,
\* moves by at most 1 (the midpoint by at most half a microsecond).
C13_ShrinkMidpoint ==
    (ShrinkRegime /\ call.shrink = "shrink") =>
        LET old == pre[Addressed]
            new == segments[Addressed]
            moved == (2 * new.start + new.duration) - (2 * old.start + old.duration)
        IN /\ outcome = "ok"
           /\ new.duration = old.duration - Delta
           /\ 2 * (new.start - old.start) <= Delta
           /\ 2 * (new.start - old.start) >= Delta - 1
           /\ moved \in {-1, 0, 1}

\* C13, its case: a shrink by an odd delta of 3, where the floor shows: the
\* start has advanced by 1 and twice the midpoint has moved by 1.
C13_Witness ==
    /\ ShrinkRegime /\ call.shrink = "shrink"
    /\ Delta = 3
    /\ segments[Addressed].start = pre[Addressed].start + 1
    /\ segments[Addressed].duration = 0

\* C17. After a successful call in the extend regime, whichever extend policy
\* was committed, the addressed segment's duration equals new_duration.
C17_ExtendReachesDuration ==
    (ExtendRegime /\ outcome = "ok") =>
        segments[Addressed].duration = call.new_duration


\* ------------------------------------------------------------ the whole track

\* The track as __init__ builds it from the descriptor it was loaded from.
AsLoaded ==
    /\ track_type = from_name(loaded.type)
    /\ raw_data = loaded
    /\ seg_attrs = [p \in 1..Len(loaded.segments) |->
                        Imported_segment(loaded.segments[p])]
    /\ segments = [p \in 1..Len(loaded.segments) |->
                       TimerangeImport(loaded.segments[p].target_timerange)]

\* A segment descriptor without the three keys a mutation may change.
OpaquePart(json_data) ==
    [json_data EXCEPT !.material_id = "",
                      !.source_timerange = [start |-> 0, duration |-> 0],
                      !.target_timerange = [start |-> 0, duration |-> 0]]

C15_CheckMaterialType ==
    checked # NotChecked =>
        /\ checked.result <=>
               \/ track_type = "video" /\ checked.material = "Video_material"
               \/ track_type = "audio" /\ checked.material = "Audio_material"
        /\ AsLoaded

\* A video track of three segments is asked about an audio material and
\* rejects it.
C15_Witness ==
    /\ checked.material = "Audio_material"
    /\ track_type = "video"
    /\ ~checked.result
    /\ Len(segments) = 3
    /\ AsLoaded

\* --------------------------------------------------------------- the keyframes

\* C16: no add_keyframe call for uniform_scale and no add_keyframe call for
\* scale_x or scale_y have both returned on one segment: the later of the
\* two raises ValueError, whichever it is.
C16_ScaleExclusive ==
    ~("uniform_scale" \in accepted /\ accepted \cap {"scale_x", "scale_y"} # {})

====
